---- MODULE Spec2Model ----
(***************************************************************************)
(* Model of the Polymarket signal service:                                 *)
(*   analyzer/market_analyzer.py   MarketAnalyzer                          *)
(*   signals/signal_generator.py   SignalGenerator                         *)
(*   acp/service.py                ACPSignalService                        *)
(*                                                                         *)
(* Representation of the Python values:                                    *)
(*   - money amounts (volume, liquidity) are whole dollars;                *)
(*   - prices and position sizes are hundredths (0.45 is 45);              *)
(*   - opportunity scores are floats in the code and tenths of a point     *)
(*     here (90.0 is 900), so that int(score) is a real truncation;        *)
(*   - time is whole seconds since an arbitrary epoch;                     *)
(*   - a JSON field of a fetched market is a tagged value [tag, val], the  *)
(*     tag telling whether the key is absent, null, a number, a numeric    *)
(*     string, some other string, the empty string or an ISO date;         *)
(*   - an optional value (None or x) is the sequence <<>> or <<x>>.        *)
(***************************************************************************)
EXTENDS Integers, Sequences, FiniteSets, TLC

VARIABLES
    now,                \* the wall clock, in seconds
    market,             \* the record last passed to analyze_market
    analysed,           \* what that call of analyze_market did
    fetched,            \* the HTTP outcome of the last get_trending_markets
    scanned,            \* what the last scan_opportunities did
    analysis,           \* the analysis last passed to generate_signal
    min_confidence,     \* SignalGenerator.min_confidence of the live instance
    signals_generated,  \* SignalGenerator.signals_generated of that instance
    returned,           \* the signals the last generator call returned
    request,            \* the last handle_request(endpoint, params, tier)
    response            \* what that call returned (or raised)

vars == <<now, market, analysed, fetched, scanned, analysis, min_confidence,
          signals_generated, returned, request, response>>

----------------------------------------------------------------------------
(* Bounds of the model *)

MaxClock == 1          \* the clock runs over 0..MaxClock
MaxFetch == 2          \* longest enumerated market list of a fetch
MaxSignals == 3        \* most signals one generator instance logs
MaxBatch == 2          \* longest list handed to generate_batch directly

----------------------------------------------------------------------------
(* Python values *)

None == <<>>
Some(x) == <<x>>

\* a local variable: e is evaluated once and F applied to its value
Let(e, F(_)) == CHOOSE r \in {F(x) : x \in {e}} : TRUE

Min2(a, b) == IF a <= b THEN a ELSE b
Max2(a, b) == IF a >= b THEN a ELSE b

V(tag, val) == [tag |-> tag, val |-> val]
Absent == V("absent", 0)      \* the key is not in the dict
Null == V("null", 0)          \* JSON null, Python None
Garbage == V("str", 0)        \* a non-empty string that parses as nothing
EmptyStr == V("empty", 0)     \* ""
Num(n) == V("num", n)         \* a JSON number
NumStr(n) == V("numstr", n)   \* a string float() parses, "1500000"
IsoDate(t) == V("iso", t)     \* an ISO-8601 string naming the instant t

SecondsPerDay == 86400
DaysOut(t, d) == IsoDate(t + d * SecondsPerDay)

Ok(x) == [raised |-> "", value |-> x]
Raise(e) == [raised |-> e, value |-> 0]

\* dict.get(key, default): the default only replaces a missing key
Get(field, default) == IF field.tag = "absent" THEN default ELSE field

\* float(x)
Float(v) ==
    CASE v.tag \in {"num", "numstr"} -> Ok(v.val)
      [] v.tag = "null" -> Raise("TypeError")
      [] OTHER -> Raise("ValueError")

\* bool(x), as the if statements use it
Truthy(v) ==
    CASE v.tag \in {"absent", "null", "empty"} -> FALSE
      [] v.tag = "num" -> v.val # 0
      [] OTHER -> TRUE

Points(n) == n * 10           \* a score of n points, in tenths
IntOf(x) == x \div 10         \* int(x) of a non-negative float in tenths

----------------------------------------------------------------------------
(* analyzer/market_analyzer.py *)

\* the outcomes field: absent, null, a string, or a list of outcomes, each
\* a dict with a price field or something that is not a dict
Outcomes(tag, items) == [tag |-> tag, items |-> items]
OutcomeDict(price) == [tag |-> "dict", price |-> price]
OutcomeStr == [tag |-> "str", price |-> Absent]

\* the body of the try block of _get_current_price
GetCurrentPriceTry(m) ==
    LET outcomes == IF m.outcomes.tag = "absent" THEN Outcomes("list", <<>>)
                    ELSE m.outcomes
    IN  CASE outcomes.tag = "null" -> Ok(0)
          [] outcomes.tag = "str" -> Raise("AttributeError")
          [] outcomes.tag = "list" /\ outcomes.items = <<>> -> Ok(0)
          [] OTHER ->
              IF outcomes.items[1].tag # "dict" THEN Raise("AttributeError")
              ELSE Float(Get(outcomes.items[1].price, Num(0)))

GetCurrentPrice(m) ==
    LET r == GetCurrentPriceTry(m)
    IN  IF r.raised # "" THEN 0 ELSE r.value

\* the body of the try block of _days_until, at the instant t
DaysUntilTry(iso_date, t) ==
    CASE iso_date.tag = "iso" -> Ok((iso_date.val - t) \div SecondsPerDay)
      [] iso_date.tag = "num" -> Raise("AttributeError")
      [] OTHER -> Raise("ValueError")

DaysUntil(iso_date, t) ==
    LET r == DaysUntilTry(iso_date, t)
    IN  IF r.raised # "" THEN 0 ELSE r.value

\* the recommendation with STRONG BUY only above 70 (> in place of >=)
RecommendationStrict(score) ==
    IF score > Points(70) THEN "STRONG BUY"
    ELSE IF score >= Points(50) THEN "BUY"
    ELSE IF score >= Points(30) THEN "WATCH"
    ELSE "SKIP"

Recommendation(score) ==
    IF score >= Points(70) THEN "STRONG BUY"
    ELSE IF score >= Points(50) THEN "BUY"
    ELSE IF score >= Points(30) THEN "WATCH"
    ELSE "SKIP"

Reason(text, days) == [text |-> text, days |-> days]

\* analyze_market at the instant t: the analysis, or the exception that the
\* construction of the analysis dict lets escape
AnalyzeMarket(m, t) ==
    LET volume == Float(Get(m.volume, Num(0)))
        liquidity == Float(Get(m.liquidity, Num(0)))
        price == GetCurrentPrice(m)
        ends_at == m.end_date_iso
        days_left == DaysUntil(ends_at, t)
        r1 == volume.value > 1000000
        r2 == liquidity.value > 100000
        r3 == price # 0 /\ 40 <= price /\ price <= 60
        r4 == Truthy(ends_at) /\ 7 <= days_left /\ days_left <= 90
        score == (IF r1 THEN Points(30) ELSE 0) + (IF r2 THEN Points(20) ELSE 0)
                 + (IF r3 THEN Points(25) ELSE 0) + (IF r4 THEN Points(15) ELSE 0)
        reasoning ==
            (IF r1 THEN <<Reason("High volume market", 0)>> ELSE <<>>)
            \o (IF r2 THEN <<Reason("Good liquidity", 0)>> ELSE <<>>)
            \o (IF r3 THEN <<Reason("Fair pricing, room for movement", 0)>> ELSE <<>>)
            \o (IF r4 THEN <<Reason("Good timeframe", days_left)>> ELSE <<>>)
    IN  IF volume.raised # "" THEN Raise(volume.raised)
        ELSE IF liquidity.raised # "" THEN Raise(liquidity.raised)
        ELSE Ok([market_id |-> m.id,
                 question |-> m.question,
                 volume |-> volume.value,
                 liquidity |-> liquidity.value,
                 current_price |-> price,
                 opportunity_score |-> score,
                 recommendation |-> Recommendation(score),
                 reasoning |-> reasoning])

\* get_trending_markets: the JSON body, or [] when the request fails
HttpOk(markets) == [ok |-> TRUE, json |-> markets]
HttpError == [ok |-> FALSE, json |-> <<>>]
GetTrendingMarkets(http) == IF http.ok THEN http.json ELSE <<>>

\* list.sort(key=score, reverse=True): stable, descending
RECURSIVE InsertByScore(_, _)
InsertByScore(a, sorted) ==
    IF sorted = <<>> THEN <<a>>
    ELSE IF Head(sorted).opportunity_score >= a.opportunity_score
         THEN <<Head(sorted)>> \o InsertByScore(a, Tail(sorted))
         ELSE <<a>> \o sorted

RECURSIVE SortByScore(_)
SortByScore(s) ==
    IF s = <<>> THEN <<>>
    ELSE InsertByScore(s[Len(s)], SortByScore(SubSeq(s, 1, Len(s) - 1)))

\* scan_opportunities keeping every analysis, whatever the threshold
MeetsThresholdAlways(a, min_score) == TRUE

\* the test of scan_opportunities that keeps an analysis
MeetsThreshold(a, min_score) == a.opportunity_score >= Points(min_score)

\* the loop of scan_opportunities over markets[i..]: the opportunities kept
\* so far, or the exception of the first analyze_market that raises
RECURSIVE ScanLoop(_, _, _, _, _)
ScanLoop(markets, i, min_score, t, acc) ==
    IF i > Len(markets) THEN Ok(acc)
    ELSE Let(AnalyzeMarket(markets[i], t), LAMBDA a :
             IF a.raised # "" THEN [raised |-> a.raised, value |-> acc]
             ELSE IF MeetsThreshold(a.value, min_score)
                  THEN ScanLoop(markets, i + 1, min_score, t, Append(acc, a.value))
                  ELSE ScanLoop(markets, i + 1, min_score, t, acc))

\* scan_opportunities(min_score) at the instant t, the fetch answering http
ScanOpportunities(http, min_score, t) ==
    Let(ScanLoop(GetTrendingMarkets(http), 1, min_score, t, <<>>), LAMBDA r :
        IF r.raised # "" THEN [raised |-> r.raised, value |-> <<>>]
        ELSE Ok(SortByScore(r.value)))

----------------------------------------------------------------------------
(* signals/signal_generator.py *)

RECURSIVE Digits(_)
Digits(n) == IF n < 10 THEN <<n>> ELSE Digits(n \div 10) \o <<n % 10>>

RECURSIVE ZeroPad(_, _)
ZeroPad(d, width) == IF Len(d) >= width THEN d ELSE ZeroPad(<<0>> \o d, width)

\* the number a digit string denotes
RECURSIVE DigitsValue(_)
DigitsValue(d) ==
    IF d = <<>> THEN 0
    ELSE DigitsValue(SubSeq(d, 1, Len(d) - 1)) * 10 + d[Len(d)]

\* _generate_id numbering by the TRADE signals of the log only
GenerateIdTradesOnly(log, t) ==
    [prefix |-> "SIG", timestamp |-> t,
     count |-> ZeroPad(Digits(Cardinality(
                   {i \in 1..Len(log) : log[i].action = "TRADE"})), 4)]

\* _generate_id: f"SIG-{timestamp}-{count:04d}", kept as its three parts
GenerateId(log, t) ==
    [prefix |-> "SIG", timestamp |-> t, count |-> ZeroPad(Digits(Len(log)), 4)]

\* _calculate_confidence with the volume bonuses granted from the
\* thresholds on (>= in place of >)
CalculateConfidenceInclusive(a) ==
    LET score == a.opportunity_score
        s1 == IF a.volume >= 5000000 THEN score + Points(10)
              ELSE IF a.volume >= 2000000 THEN score + Points(5)
              ELSE score
        s2 == IF a.liquidity > 500000 THEN s1 + Points(10)
              ELSE IF a.liquidity > 200000 THEN s1 + Points(5)
              ELSE s1
    IN  Min2(IntOf(s2), 100)

\* _calculate_confidence without the cap at 100
CalculateConfidenceUncapped(a) ==
    LET score == a.opportunity_score
        s1 == IF a.volume > 5000000 THEN score + Points(10)
              ELSE IF a.volume > 2000000 THEN score + Points(5)
              ELSE score
        s2 == IF a.liquidity > 500000 THEN s1 + Points(10)
              ELSE IF a.liquidity > 200000 THEN s1 + Points(5)
              ELSE s1
    IN  IntOf(s2)

\* _calculate_confidence
CalculateConfidence(a) ==
    LET score == a.opportunity_score
        s1 == IF a.volume > 5000000 THEN score + Points(10)
              ELSE IF a.volume > 2000000 THEN score + Points(5)
              ELSE score
        s2 == IF a.liquidity > 500000 THEN s1 + Points(10)
              ELSE IF a.liquidity > 200000 THEN s1 + Points(5)
              ELSE s1
    IN  Min2(IntOf(s2), 100)

\* _determine_side
DetermineSide(a) ==
    IF a.current_price < 40 THEN "YES"
    ELSE IF a.current_price > 60 THEN "NO"
    ELSE "YES"

\* _calculate_position_size, in hundredths of the bankroll
CalculatePositionSize(confidence) ==
    IF confidence >= 90 THEN 10
    ELSE IF confidence >= 80 THEN 7
    ELSE IF confidence >= 70 THEN 5
    ELSE IF confidence >= 60 THEN 3
    ELSE 1

\* generate_signal trading only above the threshold (> in place of >=)
IsTradeStrict(confidence, minc) == confidence > minc

\* the test of generate_signal that makes the signal a TRADE
IsTrade(confidence, minc) == confidence >= minc

\* the target and stop of a TRADE signal
TargetPrice(side, current_price) ==
    IF side = "YES" THEN Min2(current_price + 10, 95)
    ELSE Max2(current_price - 10, 5)

\* the stop without its clamps
StopLossUnclamped(side, current_price) ==
    IF side = "YES" THEN current_price - 5 ELSE current_price + 5

StopLoss(side, current_price) ==
    IF side = "YES" THEN Max2(current_price - 5, 5)
    ELSE Min2(current_price + 5, 95)

\* the signal generate_signal builds from a, on an instance whose log is
\* log and whose threshold is minc, at the instant t
MakeSignal(a, minc, log, t) ==
    LET confidence == CalculateConfidence(a)
        trade == IsTrade(confidence, minc)
        side == DetermineSide(a)
    IN  [signal_id |-> GenerateId(log, t),
         timestamp |-> t,
         market_id |-> a.market_id,
         market_question |-> a.question,
         action |-> IF trade THEN "TRADE" ELSE "SKIP",
         side |-> IF trade THEN Some(side) ELSE None,
         confidence |-> confidence,
         entry_price |-> a.current_price,
         target_price |-> IF trade THEN Some(TargetPrice(side, a.current_price))
                          ELSE None,
         stop_loss |-> IF trade THEN Some(StopLoss(side, a.current_price))
                       ELSE None,
         position_size |-> IF trade THEN CalculatePositionSize(confidence) ELSE 0,
         reasoning |-> a.reasoning,
         data |-> [volume |-> a.volume,
                   liquidity |-> a.liquidity,
                   opportunity_score |-> a.opportunity_score]]

\* the loop of generate_batch over analyses[i..]: the signals kept and the
\* log of the instance when the loop ends
RECURSIVE BatchLoop(_, _, _, _, _, _, _)
BatchLoop(analyses, i, max_signals, minc, log, t, signals) ==
    IF i > Len(analyses) THEN [signals |-> signals, log |-> log]
    ELSE Let(MakeSignal(analyses[i], minc, log, t), LAMBDA signal :
             IF signal.action = "TRADE"
             THEN IF Len(signals) + 1 >= max_signals
                  THEN [signals |-> Append(signals, signal),
                        log |-> Append(log, signal)]
                  ELSE BatchLoop(analyses, i + 1, max_signals, minc,
                                 Append(log, signal), t, Append(signals, signal))
             ELSE BatchLoop(analyses, i + 1, max_signals, minc,
                            Append(log, signal), t, signals))

GenerateBatchResult(analyses, max_signals, minc, log, t) ==
    BatchLoop(analyses, 1, max_signals, minc, log, t, <<>>)

----------------------------------------------------------------------------
(* acp/service.py *)

Tiers == {"free", "premium", "pro"}

MinScore(tier) ==
    IF tier = "pro" THEN 70 ELSE IF tier = "premium" THEN 60 ELSE 50

\* the count _get_batch hands to generate_batch
BatchCount(params, tier) ==
    LET count == Get(params.count, Num(5)).val
    IN  IF tier = "free" THEN Min2(count, 1)
        ELSE IF tier = "premium" THEN Min2(count, 10)
        ELSE count

FreeKeys == {"signal_id", "market_question", "action", "side", "confidence"}

\* _get_signal replying with the full signal to every tier
TierViewFull(signal, tier) == signal

\* the reply of _get_signal for a tier
TierView(signal, tier) ==
    IF tier = "free" THEN [k \in FreeKeys |-> signal[k]] ELSE signal

ErrorReply(text) == [error |-> text]
Raised(e) == [raised |-> e]

\* What a handler leaves behind: its reply, the scan it ran (None when it
\* ran none), and the generator it built (threshold and log; an empty log
\* and threshold 0 when it built none).
Outcome(reply, scan, minc, log, sigs) ==
    [response |-> reply, scanned |-> scan, min_confidence |-> minc,
     log |-> log, returned |-> sigs]

\* _get_signal
GetSignal(params, tier, http, t) ==
    IF params.market_id.tag # "absent"
    THEN Outcome(ErrorReply("Specific market lookup not yet implemented"),
                 None, 0, <<>>, <<>>)
    ELSE Let(ScanOpportunities(http, MinScore(tier), t), LAMBDA scan :
        IF scan.raised # ""
        THEN Outcome(Raised(scan.raised), Some(scan), 0, <<>>, <<>>)
        ELSE IF scan.value = <<>>
        THEN Outcome(ErrorReply("No opportunities found"), Some(scan), 0,
                     <<>>, <<>>)
        ELSE Let(MakeSignal(scan.value[1], MinScore(tier), <<>>, t),
                 LAMBDA signal :
                    Outcome(TierView(signal, tier), Some(scan), MinScore(tier),
                            <<signal>>, <<signal>>)))

\* _get_batch
GetBatch(params, tier, http, t) ==
    Let(ScanOpportunities(http, MinScore(tier), t), LAMBDA scan :
        IF scan.raised # ""
        THEN Outcome(Raised(scan.raised), Some(scan), 0, <<>>, <<>>)
        ELSE Let(GenerateBatchResult(scan.value, BatchCount(params, tier),
                                     MinScore(tier), <<>>, t),
                 LAMBDA batch :
                    Outcome([count |-> Len(batch.signals),
                             signals |-> batch.signals],
                            Some(scan), MinScore(tier), batch.log,
                            batch.signals)))

\* _get_performance
GetPerformance ==
    [total_signals |-> 0, win_rate |-> 0, avg_return |-> 0,
     last_30_days |-> [signals |-> 0, wins |-> 0, losses |-> 0],
     note |-> "Track record system coming soon"]

Endpoints == {"get_signal", "get_batch", "get_performance", "get_status"}

\* handle_request
HandleRequestResult(endpoint, params, tier, http, t) ==
    CASE endpoint = "get_signal" -> GetSignal(params, tier, http, t)
      [] endpoint = "get_batch" -> GetBatch(params, tier, http, t)
      [] endpoint = "get_performance" ->
            Outcome(GetPerformance, None, 0, <<>>, <<>>)
      [] OTHER -> Outcome(ErrorReply("Unknown endpoint"), None, 0, <<>>, <<>>)

----------------------------------------------------------------------------
(* Inputs *)

Market(id, volume, liquidity, outcomes, end_date_iso) ==
    [id |-> id, question |-> "Q", volume |-> volume, liquidity |-> liquidity,
     outcomes |-> outcomes, end_date_iso |-> end_date_iso]

Priced(price) == Outcomes("list", <<OutcomeDict(price)>>)

\* the market records analyze_market is tried on
VolumeVals ==
    {Absent, Null, Garbage, Num(1000000), Num(1000001), NumStr(2000000)}
LiquidityVals ==
    {Absent, Null, Garbage, Num(100000), Num(100001), NumStr(150000)}
OutcomesVals ==
    {Outcomes("absent", <<>>), Outcomes("null", <<>>), Outcomes("list", <<>>),
     Outcomes("str", <<>>), Outcomes("list", <<OutcomeStr>>)}
    \cup {Priced(p) : p \in {Absent, Null, Garbage, Num(39), Num(40),
                             NumStr(45), Num(60), Num(61)}}
EndDateVals ==
    {Absent, Null, EmptyStr, Garbage, Num(20250101), DaysOut(0, -1),
     DaysOut(0, 6), DaysOut(0, 7), DaysOut(0, 30), DaysOut(0, 90),
     DaysOut(0, 91)}
Markets ==
    {Market(1, v, l, o, e) :
        v \in VolumeVals, l \in LiquidityVals, o \in OutcomesVals,
        e \in EndDateVals}

\* the markets a fetch at the instant t is answered with
E2EMarket(id, t) ==
    Market(id, Num(2000000), Num(150000), Priced(Num(45)), DaysOut(t, 30))
SampleMarkets(t) ==
    {E2EMarket(1, t),
     Market(2, Num(6000000), Num(600000), Priced(Num(70)), DaysOut(t, 91)),
     Market(3, Num(1500000), Num(150000), Priced(Num(30)), Absent),
     Market(4, NumStr(3000000), Num(250000), Priced(NumStr(92)), DaysOut(t, 7)),
     Market(5, Num(500), Absent, Priced(Num(50)), Garbage),
     Market(6, Null, Num(150000), Priced(Num(45)), DaysOut(t, 30)),
     Market(7, Num(1500000), Num(150000), Outcomes("absent", <<>>),
            DaysOut(t, 30))}

SeqsUpTo(S, n) == UNION {[1..k -> S] : k \in 0..n}

BigFetchLen == 12
Fetches(t) ==
    {HttpError, HttpOk([i \in 1..BigFetchLen |-> E2EMarket(i, t)])}
    \cup {HttpOk(ms) : ms \in SeqsUpTo(SampleMarkets(t), MaxFetch)}

ScanThresholds == {30, 50, 60, 70}

Params(market_id, count) == [market_id |-> market_id, count |-> count]
ParamsVals ==
    {Params(Absent, c) : c \in {Absent, Num(0), Num(1), Num(2), Num(20)}}
    \cup {Params(Garbage, Absent)}

\* the analyses generate_signal is tried on
Analysis(volume, liquidity, price, score) ==
    [market_id |-> 1, question |-> "Q", volume |-> volume,
     liquidity |-> liquidity, current_price |-> price,
     opportunity_score |-> score, recommendation |-> Recommendation(score),
     reasoning |-> <<>>]
GenAnalyses ==
    {Analysis(v, l, p, Points(s)) :
        v \in {0, 2000000, 2000001, 5000000, 5000001},
        l \in {0, 200000, 200001, 500000, 500001},
        p \in {0, 5, 39, 40, 45, 60, 61, 92, 100},
        s \in {0, 50, 60, 70, 90, 100, 101, 100000}}
MinConfidences == {0, 50, 60, 70, 100}

\* the analyses one generator instance is fed through its lifetime
PipelineAnalyses ==
    {AnalyzeMarket(m, 0).value :
        m \in {m \in SampleMarkets(0) : m.id \in {1, 2, 5}}}
MaxSignalsVals == {0, 1, 5}

----------------------------------------------------------------------------
(* The state machine *)

Init ==
    /\ now = 0
    /\ market = None
    /\ analysed = None
    /\ fetched = None
    /\ scanned = None
    /\ analysis = None
    /\ min_confidence = 60
    /\ signals_generated = <<>>
    /\ returned = <<>>
    /\ request = None
    /\ response = None

\* a second passes
Tick ==
    /\ now < MaxClock
    /\ now' = now + 1
    /\ UNCHANGED <<market, analysed, fetched, scanned, analysis,
                   min_confidence, signals_generated, returned, request,
                   response>>

\* The pipeline is synchronous and single-threaded: a call runs from start
\* to finish, and nothing of it outlives its return but the result. A call
\* is made when no other is being answered.
Idle == request = None /\ analysed = None /\ scanned = None

\* the caller has taken the result of the last call: the analyzer, the
\* generator and the lists the call built are garbage
Return ==
    /\ ~Idle
    /\ market' = None
    /\ analysed' = None
    /\ fetched' = None
    /\ scanned' = None
    /\ min_confidence' = 60
    /\ signals_generated' = <<>>
    /\ returned' = <<>>
    /\ request' = None
    /\ response' = None
    /\ UNCHANGED <<now, analysis>>

\* ACPSignalService.handle_request(endpoint, params, tier), the fetch it
\* makes answered by http
HandleRequest(endpoint, params, tier, http) ==
    /\ \E out \in {HandleRequestResult(endpoint, params, tier, http, now)} :
        /\ request' = Some([endpoint |-> endpoint, params |-> params,
                            tier |-> tier, at |-> now])
        /\ fetched' = IF out.scanned = None THEN None ELSE Some(http)
        /\ scanned' = out.scanned
        /\ min_confidence' = out.min_confidence
        /\ signals_generated' = out.log
        /\ returned' = out.returned
        /\ response' = Some(out.response)
    /\ UNCHANGED <<now, market, analysed, analysis>>

Next ==
    \/ Tick
    \/ Return
    \/ /\ Idle
       /\ \E endpoint \in Endpoints, params \in ParamsVals, tier \in Tiers,
             http \in Fetches(now) :
               HandleRequest(endpoint, params, tier, http)

Spec == Init /\ [][Next]_vars

\* MarketAnalyzer.analyze_market(m)
DoAnalyzeMarket(m) ==
    /\ market' = Some(m)
    /\ analysed' = Some(AnalyzeMarket(m, now))
    /\ UNCHANGED <<now, fetched, scanned, analysis, min_confidence,
                   signals_generated, returned, request, response>>

\* MarketAnalyzer.scan_opportunities(min_score)
DoScanOpportunities(http, min_score) ==
    /\ fetched' = Some(http)
    /\ scanned' = Some(ScanOpportunities(http, min_score, now))
    /\ UNCHANGED <<now, market, analysed, analysis, min_confidence,
                   signals_generated, returned, request, response>>

NextAnalyzer ==
    \/ Tick
    \/ Return
    \/ Idle /\ \E m \in Markets : DoAnalyzeMarket(m)
    \/ /\ Idle
       /\ \E http \in Fetches(now), min_score \in ScanThresholds :
               DoScanOpportunities(http, min_score)

AnalyzerSpec == Init /\ [][NextAnalyzer]_vars

\* SignalGenerator(min_confidence=minc)
NewGenerator(minc) ==
    /\ min_confidence' = minc
    /\ signals_generated' = <<>>
    /\ returned' = <<>>
    /\ analysis' = None
    /\ UNCHANGED <<now, market, analysed, fetched, scanned, request, response>>

\* SignalGenerator.generate_signal(a)
DoGenerateSignal(a) ==
    /\ Len(signals_generated) < MaxSignals
    /\ \E signal \in {MakeSignal(a, min_confidence, signals_generated, now)} :
           /\ signals_generated' = Append(signals_generated, signal)
           /\ returned' = <<signal>>
    /\ analysis' = Some(a)
    /\ UNCHANGED <<now, market, analysed, fetched, scanned, min_confidence,
                   request, response>>

\* SignalGenerator.generate_batch(analyses, max_signals)
DoGenerateBatch(analyses, max_signals) ==
    /\ Len(signals_generated) + Len(analyses) <= MaxSignals
    /\ \E batch \in {GenerateBatchResult(analyses, max_signals, min_confidence,
                                           signals_generated, now)} :
           /\ signals_generated' = batch.log
           /\ returned' = batch.signals
           /\ analysis' = IF Len(batch.log) = Len(signals_generated) THEN analysis
                          ELSE Some(analyses[Len(batch.log) - Len(signals_generated)])
    /\ UNCHANGED <<now, market, analysed, fetched, scanned, min_confidence,
                   request, response>>

NextGenerator ==
    \/ Tick
    \/ \E minc \in MinConfidences : NewGenerator(minc)
    \/ \E a \in PipelineAnalyses : DoGenerateSignal(a)
    \/ \E analyses \in SeqsUpTo(PipelineAnalyses, MaxBatch),
          max_signals \in MaxSignalsVals :
            DoGenerateBatch(analyses, max_signals)

GeneratorSpec == Init /\ [][NextGenerator]_vars

\* generate_signal as a function of the analysis and the threshold: both
\* are drawn at the start, and a fresh instance is applied to them
InitSignal ==
    /\ now = 0
    /\ market = None
    /\ analysed = None
    /\ fetched = None
    /\ scanned = None
    /\ analysis \in {Some(a) : a \in GenAnalyses}
    /\ min_confidence \in MinConfidences
    /\ signals_generated = <<>>
    /\ returned = <<>>
    /\ request = None
    /\ response = None

NextSignal ==
    \/ Tick
    \/ DoGenerateSignal(analysis[1])

SignalSpec == InitSignal /\ [][NextSignal]_vars

----------------------------------------------------------------------------
(* Properties *)

IsSignalReply(r) == "signal_id" \in DOMAIN r
IsBatchReply(r) == "signals" \in DOMAIN r
IsErrorReply(r) == "error" \in DOMAIN r

\* the thresholds and limits the tiers are documented with
TierMinScore(tier) ==
    CASE tier = "free" -> 50 [] tier = "premium" -> 60 [] tier = "pro" -> 70
RequestedCount(params) == IF params.count = Absent THEN 5 ELSE params.count.val
TierMaxCount(tier, requested) ==
    CASE tier = "free" -> 1
      [] tier = "premium" -> Min2(requested, 10)
      [] tier = "pro" -> requested

\* C1: every generated signal is a SKIP or a TRADE; a SKIP has no side, no
\* target, no stop and position size 0; and a signal is a SKIP exactly when
\* its confidence is below the generator's min_confidence.
C1_SkipIsEmptyAndBelowThreshold ==
    \A i \in 1..Len(signals_generated) :
        LET s == signals_generated[i]
        IN  /\ s.action \in {"SKIP", "TRADE"}
            /\ s.action = "SKIP" =>
                  /\ s.side = None
                  /\ s.target_price = None
                  /\ s.stop_loss = None
                  /\ s.position_size = 0
            /\ (s.action = "SKIP") <=> (s.confidence < min_confidence)

C1_Witness ==
    /\ returned # <<>>
    /\ returned[1].action = "SKIP"
    /\ returned[1].confidence < min_confidence
    /\ returned[1].confidence > 0

\* C2: a get_batch reply holds at most the tier's maximum of signals (1 for
\* free, min(requested, 10) for premium, requested for pro, requested being
\* 5 when count is omitted), and its count is the length of its signals.
C2_BatchWithinTierLimit ==
    (request # None /\ request[1].endpoint = "get_batch"
        /\ IsBatchReply(response[1])) =>
        /\ Len(response[1].signals)
             <= TierMaxCount(request[1].tier, RequestedCount(request[1].params))
        /\ response[1].count = Len(response[1].signals)

\* C3: when get_signal or get_batch fetches no market that scores at least
\* the tier's minScore (the fetch failing included), the reply is the error
\* payload "No opportunities found".
NoneQualifies(http, tier, t) ==
    \A i \in 1..Len(GetTrendingMarkets(http)) :
        LET a == AnalyzeMarket(GetTrendingMarkets(http)[i], t)
        IN  a.raised = "" /\ a.value.opportunity_score < Points(TierMinScore(tier))

C3_NoOpportunitiesIsError ==
    (request # None /\ request[1].endpoint \in {"get_signal", "get_batch"}
        /\ fetched # None /\ NoneQualifies(fetched[1], request[1].tier, request[1].at)) =>
        /\ IsErrorReply(response[1])
        /\ response[1].error = "No opportunities found"


\* C4: a market record with an absent or malformed volume, liquidity, price
\* or end date never aborts analyze_market or scan_opportunities: the field
\* takes its neutral default (0, no timeframe bonus) and the record is scored.
Malformed(field) == field.tag \notin {"num", "numstr", "iso"}

C4_MalformedFieldsNeverAbort ==
    /\ analysed # None =>
          /\ analysed[1].raised = ""
          /\ Malformed(market[1].volume) => analysed[1].value.volume = 0
          /\ Malformed(market[1].liquidity) => analysed[1].value.liquidity = 0
          /\ GetCurrentPriceTry(market[1]).raised # "" =>
                analysed[1].value.current_price = 0
          /\ Malformed(market[1].end_date_iso) =>
                \A i \in 1..Len(analysed[1].value.reasoning) :
                    analysed[1].value.reasoning[i].text # "Good timeframe"
    /\ scanned # None => scanned[1].raised = ""

\* C5: get_signal (premium or pro) on a fetch of the one market with volume
\* 2,000,000, liquidity 150,000, price 0.45 and end date 30 days out scores
\* it 90, STRONG BUY, and replies with the signal TRADE, YES, entry 0.45,
\* target 0.55, stop 0.40, position size 0.10.
C5_Case ==
    /\ request # None
    /\ request[1].endpoint = "get_signal"
    /\ request[1].tier \in {"premium", "pro"}
    /\ fetched # None
    /\ fetched[1].ok
    /\ Len(fetched[1].json) = 1
    /\ fetched[1].json[1].volume = Num(2000000)
    /\ fetched[1].json[1].liquidity = Num(150000)
    /\ fetched[1].json[1].outcomes = Priced(Num(45))
    /\ fetched[1].json[1].end_date_iso = DaysOut(request[1].at, 30)

C5_Outcome(confidence) ==
    /\ scanned[1].raised = ""
    /\ Len(scanned[1].value) = 1
    /\ scanned[1].value[1].opportunity_score = Points(90)
    /\ scanned[1].value[1].recommendation = "STRONG BUY"
    /\ IsSignalReply(response[1])
    /\ response[1].confidence = confidence
    /\ response[1].action = "TRADE"
    /\ response[1].side = Some("YES")
    /\ response[1].entry_price = 45
    /\ response[1].target_price = Some(55)
    /\ response[1].stop_loss = Some(40)
    /\ response[1].position_size = 10

\* C5 as stated: the confidence of that signal is 95.
C5_ConfidenceIs95 == C5_Case => C5_Outcome(95)

\* C5 as amended: the confidence of that signal is 90, a volume of exactly
\* 2,000,000 earning no volume bonus.
C5_ConfidenceIs90 == C5_Case => C5_Outcome(90)

C5_Witness == C5_Case /\ IsSignalReply(response[1]) /\ response[1].action = "TRADE"

\* C6: a get_signal reply carrying a signal has exactly the keys signal_id,
\* market_question, action, side and confidence for the free tier, and is
\* the full signal record of the generator for premium and pro.
SignalKeys ==
    {"signal_id", "timestamp", "market_id", "market_question", "action",
     "side", "confidence", "entry_price", "target_price", "stop_loss",
     "position_size", "reasoning", "data"}

C6_FreeReplyIsRedacted ==
    (request # None /\ request[1].endpoint = "get_signal"
        /\ IsSignalReply(response[1])) =>
        /\ request[1].tier = "free" =>
              /\ DOMAIN response[1] =
                    {"signal_id", "market_question", "action", "side", "confidence"}
              /\ \A k \in DOMAIN response[1] :
                    response[1][k] = signals_generated[1][k]
        /\ request[1].tier \in {"premium", "pro"} =>
              /\ DOMAIN response[1] = SignalKeys
              /\ response[1] = signals_generated[1]

C6_Witness ==
    /\ request # None
    /\ request[1].endpoint = "get_signal"
    /\ request[1].tier = "free"
    /\ IsSignalReply(response[1])
    /\ response[1].action = "TRADE"

\* C7: during a request every analysis handed to generate_signal, and so
\* every signal returned, has a score of at least the tier's minScore.
C7_ThresholdBeforeGeneration ==
    request # None =>
        /\ \A i \in 1..Len(signals_generated) :
              signals_generated[i].data.opportunity_score
                  >= Points(TierMinScore(request[1].tier))
        /\ \A i \in 1..Len(returned) :
              /\ returned[i].data.opportunity_score
                    >= Points(TierMinScore(request[1].tier))
              /\ \E j \in 1..Len(signals_generated) :
                    signals_generated[j] = returned[i]

\* a pro request whose fetch held a market scoring below 70 and that
\* returned a signal all the same
C7_Witness ==
    /\ request # None
    /\ request[1].tier = "pro"
    /\ fetched # None
    /\ \E i \in 1..Len(fetched[1].json) :
          LET a == AnalyzeMarket(fetched[1].json[i], request[1].at)
          IN  a.raised = "" /\ a.value.opportunity_score < Points(70)
    /\ returned # <<>>

\* C8: no two signals of one generator instance share an ID, and the
\* sequence number in the ID of the i-th signal is i - 1, SKIP signals
\* counted.
C8_IdsUnique ==
    /\ \A i, j \in 1..Len(signals_generated) :
          i # j => signals_generated[i].signal_id # signals_generated[j].signal_id
    /\ \A i \in 1..Len(signals_generated) :
          /\ DigitsValue(signals_generated[i].signal_id.count) = i - 1
          /\ Len(signals_generated[i].signal_id.count) >= 4

C8_Witness ==
    /\ Len(signals_generated) >= 3
    /\ signals_generated[1].action = "SKIP"
    /\ signals_generated[2].action = "TRADE"
    /\ signals_generated[2].signal_id.timestamp
          = signals_generated[3].signal_id.timestamp

VolumeBonus(volume) ==
    IF volume > 5000000 THEN 10 ELSE IF volume > 2000000 THEN 5 ELSE 0
LiquidityBonus(liquidity) ==
    IF liquidity > 500000 THEN 10 ELSE IF liquidity > 200000 THEN 5 ELSE 0

C10_ConfidenceClamped ==
    \A i \in 1..Len(signals_generated) :
        LET a == analysis[1]
            c == signals_generated[i].confidence
        IN  /\ c \in 0..100
            /\ Points(c) = Min2(a.opportunity_score + Points(VolumeBonus(a.volume))
                                  + Points(LiquidityBonus(a.liquidity)),
                                Points(100))

C10_Witness ==
    /\ returned # <<>>
    /\ analysis[1].opportunity_score > Points(1000)
    /\ returned[1].confidence = 100

\* C11: the score analyze_market returns is the sum of the points of exactly
\* the rules that hold of the record (volume > 1,000,000: 30; liquidity >
\* 100,000: 20; 0.40 <= price <= 0.60: 25; 7 <= days until the end date <=
\* 90: 15), so it lies in [0, 90]; and the recommendation is STRONG BUY from
\* 70, BUY from 50, WATCH from 30 and SKIP below.
IsNumber(field) == field.tag \in {"num", "numstr"}
VolumeRule(m) == IsNumber(m.volume) /\ m.volume.val > 1000000
LiquidityRule(m) == IsNumber(m.liquidity) /\ m.liquidity.val > 100000
PriceRule(m) ==
    /\ m.outcomes.tag = "list"
    /\ m.outcomes.items # <<>>
    /\ m.outcomes.items[1].tag = "dict"
    /\ IsNumber(m.outcomes.items[1].price)
    /\ 40 <= m.outcomes.items[1].price.val
    /\ m.outcomes.items[1].price.val <= 60
TimeframeRule(m, t) ==
    /\ m.end_date_iso.tag = "iso"
    /\ 7 * SecondsPerDay <= m.end_date_iso.val - t
    /\ m.end_date_iso.val - t < 91 * SecondsPerDay
RulePoints(m, t) ==
    (IF VolumeRule(m) THEN 30 ELSE 0) + (IF LiquidityRule(m) THEN 20 ELSE 0)
    + (IF PriceRule(m) THEN 25 ELSE 0) + (IF TimeframeRule(m, t) THEN 15 ELSE 0)
RuleRecommendation(points) ==
    CASE points >= 70 -> "STRONG BUY"
      [] points >= 50 /\ points < 70 -> "BUY"
      [] points >= 30 /\ points < 50 -> "WATCH"
      [] OTHER -> "SKIP"

C11_ScoreIsSumOfRules ==
    [][(analysed = None /\ analysed' # None /\ analysed'[1].raised = "") =>
          /\ analysed'[1].value.opportunity_score
                = Points(RulePoints(market'[1], now))
          /\ analysed'[1].value.opportunity_score \in 0..Points(90)
          /\ analysed'[1].value.recommendation
                = RuleRecommendation(RulePoints(market'[1], now))]_vars

\* a record of which the volume, price and timeframe rules hold and the
\* liquidity rule does not: 70 points, on the STRONG BUY boundary
C11_Witness ==
    /\ analysed # None
    /\ analysed[1].raised = ""
    /\ VolumeRule(market[1])
    /\ ~LiquidityRule(market[1])
    /\ PriceRule(market[1])
    /\ analysed[1].value.opportunity_score = Points(70)
    /\ analysed[1].value.recommendation = "STRONG BUY"

\* C12: the stop and the target of every TRADE signal with an entry price in
\* [0, 1] bracket the entry: stop < entry < target for YES, and
\* target < entry < stop for NO, the price 0 of a market without a price
\* included.
C12_StopAndTargetBracketEntry ==
    \A i \in 1..Len(signals_generated) :
        LET s == signals_generated[i]
        IN  (s.action = "TRADE" /\ s.entry_price \in 0..100) =>
               /\ s.side = Some("YES") =>
                     /\ s.stop_loss[1] < s.entry_price
                     /\ s.entry_price < s.target_price[1]
               /\ s.side = Some("NO") =>
                     /\ s.target_price[1] < s.entry_price
                     /\ s.entry_price < s.stop_loss[1]

====
